---- MODULE Spec2Model ----
(***************************************************************************)
(* Model of pkg/driver/executor/executor.go: the Executor that creates,    *)
(* deletes, locates and lists OpenStack servers for the machine            *)
(* controller.  The provider (the Compute and Network clients) is the      *)
(* environment: its servers and ports are the only state, every client     *)
(* call is one atomic step, and any client call may fail.                  *)
(***************************************************************************)
EXTENDS Integers, Sequences, FiniteSets, TLC

\* config, the provider's servers and ports, and the calls of the Executor;
\* poller is a wait of waitForStatus on its own, codec a provider identifier
\* being encoded and decoded
VARIABLES config, servers, ports, nextServer, nextPort, call, ncalls,
          poller, codec

vars == <<config, servers, ports, nextServer, nextPort, call, ncalls,
          poller, codec>>

(***************************************************************************)
(* Bounds of the model.                                                    *)
(***************************************************************************)
\* number of Executor calls in one behaviour
MaxCalls == 2
\* servers that other clients of the provider made before the first call
MaxOther == 1
\* ticks of the poller's clock before the deadline of a wait expires
MaxPolls == 2

\* the deadlines CreateMachine and DeleteMachine hand to waitForStatus
CreateWaitSecs == 600
DeleteWaitSecs == 300

Min(a, b) == IF a < b THEN a ELSE b

\* machine names; the provider's name filter is a pattern match, so a list
\* by "m1" also returns the servers named "m12"
Names == {"m1", "m12"}
\* the machine the controller calls the Executor for, one call at a time
Machine == "m1"

(***************************************************************************)
(* Strings that are encoded and decoded are sequences of characters.       *)
(***************************************************************************)
Digits == <<"0", "1", "2", "3", "4", "5", "6", "7", "8", "9">>
Chars(str) ==
    CASE str = "" -> <<>>
      [] str = "eu" -> <<"e", "u">>
      [] str = "openstack:///" ->
           <<"o", "p", "e", "n", "s", "t", "a", "c", "k", ":", "/", "/", "/">>
      [] str = "bogus" -> <<"b", "o", "g", "u", "s">>

\* the id the provider gives to the n-th server it creates
ServerIDOf(n) == <<"s", Digits[n + 1]>>

ProviderPrefix == Chars("openstack:///")

IsPrefix(p, s) == Len(p) <= Len(s) /\ SubSeq(s, 1, Len(p)) = p

\* positions of "/" in s
Slashes(s) == {i \in 1..Len(s) : s[i] = "/"}

EncodeProviderID(region, id) == ProviderPrefix \o region \o <<"/">> \o id

\* a faulty variant of DecodeProviderID: whatever follows the last "/" is the id
DecodeProviderID_lastSegment(pid) ==
    IF Slashes(pid) = {} THEN pid
    ELSE LET k == CHOOSE i \in Slashes(pid) : \A j \in Slashes(pid) : j <= i
         IN  SubSeq(pid, k + 1, Len(pid))

\* the raw server id of openstack:///<region>/<id>, empty for any other shape
DecodeProviderID(pid) ==
    IF ~IsPrefix(ProviderPrefix, pid) THEN <<>>
    ELSE LET rest == SubSeq(pid, Len(ProviderPrefix) + 1, Len(pid))
         IN  IF Cardinality(Slashes(rest)) # 1 THEN <<>>
             ELSE LET k == CHOOSE i \in Slashes(rest) : TRUE
                  IN  IF k = 1 THEN <<>> ELSE SubSeq(rest, k + 1, Len(rest))

\* isEmptyString, of a configuration string and of a string of characters
isEmptyString(s) == s = ""
isEmptyChars(s) == Len(s) = 0

strSliceContains(slice, s) == \E i \in 1..Len(slice) : slice[i] = s

(***************************************************************************)
(* Errors: the message as a list of its parts, and the sentinels that      *)
(* errors.Is / client.IsNotFoundError still find in the %w chain.          *)
(***************************************************************************)
NoErr == [text |-> <<>>, is |-> {}]
NewErr(t) == [text |-> <<t>>, is |-> {}]
\* an error of the client; kind "404" is the one IsNotFoundError recognises
ClientErr(op, kind) == [text |-> <<op, kind>>, is |-> {kind}]
\* fmt.Errorf("ctx: %w", e)
WrapW(ctx, e) == [text |-> <<ctx>> \o e.text, is |-> e.is]
\* fmt.Errorf("ctx: %v", e), fmt.Errorf("ctx: %s", e)
WrapV(ctx, e) == [text |-> <<ctx>> \o e.text, is |-> {}]
ErrNotFound == [text |-> <<"ErrNotFound">>, is |-> {"ErrNotFound"}]
ErrMultipleFound == [text |-> <<"ErrMultipleFound">>, is |-> {"ErrMultipleFound"}]
ErrorsIs(e, sentinel) == sentinel \in e.is
IsNotFoundError(e) == "404" \in e.is

IsSubSeq(part, whole) ==
    \E i \in 0..(Len(whole) - Len(part)) :
        SubSeq(whole, i + 1, i + Len(part)) = part

(***************************************************************************)
(* MachineProviderConfig: the fields of ex.Config.Spec the executor reads. *)
(* Tags is the set of keys of the tag map (the values are never read).     *)
(***************************************************************************)
Region == Chars("eu")
PodNetworkCidr == "cidr"

\* tag keys: c1, c2 contain the cluster prefix, r1 the role prefix, cr both
HasClusterPrefix(key) == key \in {"c1", "c2", "cr"}
HasRolePrefix(key) == key \in {"r1", "cr"}

OwnedTags == {"c1", "r1", "x"}

NetworkList == <<[Id |-> "", Name |-> "netA", PodNetwork |-> TRUE],
                 [Id |-> "net2", Name |-> "", PodNetwork |-> FALSE]>>

Config(networkID, subnetID, networks, imageID, rootDiskSize, tags) ==
    [Region |-> Region, NetworkID |-> networkID, SubnetID |-> subnetID,
     Networks |-> networks, SecurityGroups |-> <<"sg1", "sg2">>,
     ImageID |-> imageID, ImageName |-> "image", FlavorName |-> "flavor",
     RootDiskSize |-> rootDiskSize, Tags |-> tags,
     PodNetworkCidr |-> PodNetworkCidr]

\* the configurations of the model: the three network setups of
\* computeServerNetworks, with all, some and none of the ownership tags,
\* booting from an image or from a volume
Configs ==
    { Config("net1", "sub1", <<>>, "", 0, OwnedTags),
      Config("net1", "sub1", <<>>, "img1", 10, {"x"}),
      Config("net1", "", <<>>, "img1", 10, {"c1", "x"}),
      Config("", "", NetworkList, "", 0, OwnedTags) }

\* what the resolve-by-name calls of the clients return
ResolvedID(name) ==
    CASE name = "netA" -> "net3"
      [] name = "sg1" -> "sgid1"
      [] name = "sg2" -> "sgid2"
      [] name = "image" -> "img0"
      [] name = "flavor" -> "flv0"

(***************************************************************************)
(* The provider calls of one step, in the order the code makes them.  A    *)
(* step issues its plan up to the first call that fails (fail = 0: none).  *)
(***************************************************************************)
Call(op, arg) == [op |-> op, arg |-> arg]

\* the client operations issued; the log of a call of the Executor is the set
\* of them (the order of its steps is kept in its phases)
Issued(plan, fail) ==
    {plan[i].op : i \in 1..(IF fail = 0 THEN Len(plan) ELSE fail)}

MutatingOps ==
    {"CreatePort", "UpdatePort", "DeletePort",
     "CreateServer", "BootFromVolume", "DeleteServer"}


(***************************************************************************)
(* One call of the Executor.                                               *)
(***************************************************************************)
Idle ==
    [op |-> "none", pc |-> "idle", pid |-> <<>>,
     server |-> <<>>, created |-> <<>>, port |-> 0, nws |-> <<>>,
     polls |-> 0, todo |-> <<>>, err0 |-> NoErr, rollbacks |-> 0,
     id |-> <<>>, machines |-> << >>, err |-> NoErr, log |-> {},
     deleted |-> {}, portsDeleted |-> {}, portsUpdated |-> {}, phases |-> <<>>,
     looked |-> FALSE, lookupErr |-> NoErr, fetched |-> <<>>, errIn |-> NoErr,
     last |-> "", podPorts |-> <<>>, portFound |-> "", portID |-> 0]

Finished(c) == c.pc = "done"
Quiet == \A n \in Names : call[n].pc \in {"idle", "done"}

\* the controller may call the Executor: one call at a time
CanBegin(m) == ncalls < MaxCalls /\ m = Machine /\ Quiet

\* a call begins; the records of the finished calls are dropped
Begin(m, op, pid, pc) ==
    [n \in Names |->
        IF n = m THEN [Idle EXCEPT !.op = op, !.pc = pc, !.pid = pid] ELSE Idle]

\* no wait on its own, no identifier on its own
NoPoller == [state |-> "none"]
NoCodec == [stage |-> "none"]

\* NewExecutor: an Executor with its Config, at a provider that holds nothing
Init ==
    /\ config \in Configs
    /\ servers = << >>
    /\ ports = << >>
    /\ nextServer = 1
    /\ nextPort = 1
    /\ ncalls = 0
    /\ call = [n \in Names |-> Idle]
    /\ poller = NoPoller
    /\ codec = NoCodec

RECURSIVE Ascending(_)
Ascending(S) ==
    IF S = {} THEN <<>>
    ELSE LET x == CHOOSE y \in S : \A z \in S : y <= z
         IN  <<x>> \o Ascending(S \ {x})

Range(f) == {f[i] : i \in DOMAIN f}

(***************************************************************************)
(* CreateMachine, step 1: computeServerNetworks.                           *)
(***************************************************************************)
PreallocatesPort(cfg) ==
    ~isEmptyString(cfg.NetworkID) /\ ~isEmptyString(cfg.SubnetID)

\* the entries of the network list that are resolved by name
Unresolved(networks) == SelectSeq(networks, LAMBDA n : isEmptyString(n.Id))

NetworksPlan(cfg, m) ==
    IF PreallocatesPort(cfg)
    THEN <<Call("GetSubnet", cfg.SubnetID)>>
         \o [i \in 1..Len(cfg.SecurityGroups) |->
                Call("GroupIDFromName", cfg.SecurityGroups[i])]
         \o <<Call("CreatePort", m)>>
    ELSE IF ~isEmptyString(cfg.NetworkID) THEN <<>>
    ELSE [i \in 1..Len(Unresolved(cfg.Networks)) |->
             Call("NetworkIDFromName", Unresolved(cfg.Networks)[i].Name)]

\* the attachments computeServerNetworks returns; port is the new port's id
serverNetworks(cfg, port) ==
    IF PreallocatesPort(cfg)
    THEN <<[UUID |-> cfg.NetworkID, Port |-> port]>>
    ELSE IF ~isEmptyString(cfg.NetworkID)
    THEN <<[UUID |-> cfg.NetworkID, Port |-> 0]>>
    ELSE [i \in 1..Len(cfg.Networks) |->
             [UUID |-> IF isEmptyString(cfg.Networks[i].Id)
                       THEN ResolvedID(cfg.Networks[i].Name)
                       ELSE cfg.Networks[i].Id,
              Port |-> 0]]

\* a faulty variant of NewPort: the security groups are left out
NewPort_noGroups(cfg, m) ==
    [name |-> m, networkID |-> cfg.NetworkID, subnet |-> cfg.SubnetID,
     pairs |-> {cfg.PodNetworkCidr}, groups |-> {},
     deviceID |-> <<>>, preallocated |-> TRUE]

\* the port ports.CreateOpts of computeServerNetworks asks for
NewPort(cfg, m) ==
    [name |-> m, networkID |-> cfg.NetworkID, subnet |-> cfg.SubnetID,
     pairs |-> {cfg.PodNetworkCidr},
     groups |-> {ResolvedID(g) : g \in Range(cfg.SecurityGroups)},
     deviceID |-> <<>>, preallocated |-> TRUE]

CreateMachine(m) ==
    /\ CanBegin(m)
    /\ call' = Begin(m, "create", <<>>, "networks")
    /\ ncalls' = ncalls + 1
    /\ UNCHANGED <<config, poller, codec, servers, ports, nextServer, nextPort>>

computeServerNetworks(m) ==
    /\ call[m].pc = "networks"
    /\ LET c == call[m]
           plan == NetworksPlan(config, m)
       IN  \E fail \in 0..Len(plan) :
             LET log == c.log \cup Issued(plan, fail)
                 made == fail = 0 /\ PreallocatesPort(config)
             IN  /\ ports' = IF made
                             THEN ports @@ (nextPort :> NewPort(config, m))
                             ELSE ports
                 /\ nextPort' = IF made THEN nextPort + 1 ELSE nextPort
                 /\ call' = [call EXCEPT ![m] =
                       IF fail = 0
                       THEN [c EXCEPT !.pc = "deploy", !.log = log,
                                      !.phases = Append(@, "networks-resolved"),
                                      !.port = IF made THEN nextPort ELSE 0,
                                      !.nws = serverNetworks(config, nextPort)]
                       ELSE [c EXCEPT !.pc = "done", !.log = log,
                                      !.err = WrapW("failed to resolve server networks",
                                                    ClientErr(plan[fail].op, "500"))]]
    /\ UNCHANGED <<config, poller, codec, servers, nextServer, ncalls>>

(***************************************************************************)
(* CreateMachine, step 2: deployServer.                                    *)
(***************************************************************************)
DeployPlan(cfg, m) ==
    (IF cfg.ImageID # "" THEN <<>> ELSE <<Call("ImageIDFromName", cfg.ImageName)>>)
    \o <<Call("FlavorIDFromName", cfg.FlavorName)>>
    \o <<Call(IF cfg.RootDiskSize > 0 THEN "BootFromVolume" ELSE "CreateServer", m)>>

\* the error deployServer returns when the given call fails
DeployErr(failed) ==
    CASE failed.op = "ImageIDFromName" ->
           WrapV("error resolving image ID", ClientErr(failed.op, "500"))
      [] failed.op = "FlavorIDFromName" ->
           WrapV("error resolving flavor ID", ClientErr(failed.op, "500"))
      [] OTHER -> ClientErr(failed.op, "500")

\* the provider boots a server: the ports named in the attachments are bound
\* to it and, when wired, a port is made on every other attached network
BootPorts(id, nws, wired) ==
    LET bound == [p \in DOMAIN ports |->
                    IF \E i \in 1..Len(nws) : nws[i].Port = p
                    THEN [ports[p] EXCEPT !.deviceID = id]
                    ELSE ports[p]]
        plain == IF wired THEN {i \in 1..Len(nws) : nws[i].Port = 0} ELSE {}
        order == Ascending(plain)
    IN  bound @@ [k \in {nextPort + j - 1 : j \in 1..Len(order)} |->
                    [name |-> "", networkID |-> nws[order[k - nextPort + 1]].UUID,
                     subnet |-> "", pairs |-> {}, groups |-> {},
                     deviceID |-> id, preallocated |-> FALSE]]

deployServer(m) ==
    /\ call[m].pc = "deploy"
    /\ LET c == call[m]
           plan == DeployPlan(config, m)
           id == ServerIDOf(nextServer)
       IN  \E fail \in 0..Len(plan), wired \in BOOLEAN :
             LET log == c.log \cup Issued(plan, fail)
             IN  IF fail = 0
                 THEN /\ servers' = servers @@
                            (id :> [name |-> m, status |-> "BUILD",
                                    metadata |-> config.Tags, deleting |-> FALSE])
                      /\ nextServer' = nextServer + 1
                      /\ ports' = BootPorts(id, c.nws, wired)
                      /\ nextPort' = nextPort + Cardinality(DOMAIN ports' \ DOMAIN ports)
                      /\ call' = [call EXCEPT ![m] =
                            [c EXCEPT !.pc = "waitActive", !.log = log, !.polls = 0,
                                      !.phases = Append(@, "submitted"),
                                      !.server = id, !.created = id,
                                      !.pid = EncodeProviderID(config.Region, id)]]
                 ELSE /\ wired
                      /\ call' = [call EXCEPT ![m] =
                            [c EXCEPT !.pc = "done", !.log = log,
                                      !.err = WrapW("failed to deploy server",
                                                    DeployErr(plan[fail]))]]
                      /\ UNCHANGED <<config, poller, codec, servers, ports, nextServer, nextPort>>
    /\ UNCHANGED <<config, poller, codec, ncalls>>

(***************************************************************************)
(* waitForStatus: one query of the poller per tick of its clock.           *)
(***************************************************************************)
ServerStatusBuild == "BUILD"
ServerStatusActive == "ACTIVE"
ServerStatusError == "ERROR"
ServerStatusDeleted == "DELETED"

ErrWaitTimeout == NewErr("timed out waiting for the condition")

\* what Compute.GetServer may answer: the server's status, not-found when
\* there is no such server, or a failure of the call
GetServer(id) ==
    {[err |-> ClientErr("GetServer", "500"), status |-> ""]}
    \cup (IF id \in DOMAIN servers
          THEN {[err |-> NoErr, status |-> servers[id].status]}
          ELSE {[err |-> ClientErr("GetServer", "404"), status |-> ""]})

GetServerCall(id, current) == "GetServer"

\* what a query of the poller observed
Observed(current) ==
    IF current.err = NoErr THEN current.status
    ELSE IF IsNotFoundError(current.err) THEN "404" ELSE "err"

\* a faulty variant of pollCondition: a pending status ends the wait
pollCondition_pendingDone(current, pending, target) ==
    IF current.err # NoErr
    THEN IF IsNotFoundError(current.err)
            /\ strSliceContains(target, ServerStatusDeleted)
         THEN [done |-> TRUE, err |-> NoErr]
         ELSE [done |-> FALSE, err |-> current.err]
    ELSE IF strSliceContains(target, current.status)
            \/ strSliceContains(pending, current.status)
    THEN [done |-> TRUE, err |-> NoErr]
    ELSE IF Len(pending) = 0
    THEN [done |-> FALSE, err |-> NoErr]
    ELSE [done |-> FALSE, err |-> NewErr("unexpected status")]

\* a faulty variant of pollCondition: a status outside the pending list is polled on
pollCondition_ignoresPending(current, pending, target) ==
    IF current.err # NoErr
    THEN IF IsNotFoundError(current.err)
            /\ strSliceContains(target, ServerStatusDeleted)
         THEN [done |-> TRUE, err |-> NoErr]
         ELSE [done |-> FALSE, err |-> current.err]
    ELSE IF strSliceContains(target, current.status)
    THEN [done |-> TRUE, err |-> NoErr]
    ELSE [done |-> FALSE, err |-> NoErr]

\* a faulty variant of pollCondition: not-found ends every wait with success
pollCondition_notFoundDone(current, pending, target) ==
    IF current.err # NoErr
    THEN IF IsNotFoundError(current.err)
         THEN [done |-> TRUE, err |-> NoErr]
         ELSE [done |-> FALSE, err |-> current.err]
    ELSE IF strSliceContains(target, current.status)
    THEN [done |-> TRUE, err |-> NoErr]
    ELSE IF Len(pending) = 0 \/ strSliceContains(pending, current.status)
    THEN [done |-> FALSE, err |-> NoErr]
    ELSE [done |-> FALSE, err |-> NewErr("unexpected status")]

\* the condition function handed to wait.Poll
pollCondition(current, pending, target) ==
    IF current.err # NoErr
    THEN IF IsNotFoundError(current.err)
            /\ strSliceContains(target, ServerStatusDeleted)
         THEN [done |-> TRUE, err |-> NoErr]
         ELSE [done |-> FALSE, err |-> current.err]
    ELSE IF strSliceContains(target, current.status)
    THEN [done |-> TRUE, err |-> NoErr]
    ELSE IF Len(pending) = 0 \/ strSliceContains(pending, current.status)
    THEN [done |-> FALSE, err |-> NoErr]
    ELSE [done |-> FALSE,
          err |-> IF current.status = ServerStatusError
                  THEN WrapV("unexpected status", NewErr("fault"))
                  ELSE NewErr("unexpected status")]

\* the deadline of a wait of the Executor, in ticks the model runs
Deadline(secs) == Min(secs, MaxPolls)

\* a faulty variant of waitForStatus: the deadline never expires
waitForStatus_noDeadline(polls, current, pending, target, secs) ==
    LET r == pollCondition(current, pending, target)
    IN  IF r.err # NoErr THEN [state |-> "failed", err |-> r.err]
        ELSE IF r.done THEN [state |-> "done", err |-> NoErr]
        ELSE [state |-> "again", err |-> NoErr]

\* one tick of wait.Poll: the wait is done, has failed, or goes on; the
\* deadline expires when the clock has ticked secs times
waitForStatus(polls, current, pending, target, secs) ==
    LET r == pollCondition(current, pending, target)
    IN  IF r.err # NoErr THEN [state |-> "failed", err |-> r.err]
        ELSE IF r.done THEN [state |-> "done", err |-> NoErr]
        ELSE IF polls + 1 >= secs
        THEN [state |-> "failed", err |-> ErrWaitTimeout]
        ELSE [state |-> "again", err |-> NoErr]

(***************************************************************************)
(* The Instance Locator.                                                   *)
(***************************************************************************)
\* the keys the loop over ex.Config.Spec.Tags leaves in searchClusterName
\* and searchNodeRole: Go ranges over a map in no fixed order, so with
\* several matching keys any of them may be the last one assigned
SearchKeys(tags) ==
    LET cluster == {k \in tags : HasClusterPrefix(k)}
        role == {k \in tags : ~HasClusterPrefix(k) /\ HasRolePrefix(k)}
    IN  {[cluster |-> a, role |-> b] :
            a \in (IF cluster = {} THEN {""} ELSE cluster),
            b \in (IF role = {} THEN {""} ELSE role)}

HasTags(metadata, keys) == keys.cluster \in metadata /\ keys.role \in metadata

\* the provider's name filter matches a pattern, not the whole name
NameMatches(pattern, name) == name = pattern \/ (pattern = "m1" /\ name = "m12")
ListServers(pattern) ==
    {id \in DOMAIN servers : NameMatches(pattern, servers[id].name)}

\* the result of a lookup, with the calls it issued and the metadata of the
\* server it fetched, if it fetched one
Found(id, log) ==
    [server |-> id, err |-> NoErr, log |-> log, fetched |-> <<servers[id].metadata>>]
NotLocated(err, log) == [server |-> <<>>, err |-> err, log |-> log, fetched |-> <<>>]

\* a faulty variant of getMachineByProviderID: the ownership tags are not looked at
getMachineByProviderID_noTags(cfg, providerID) ==
    LET serverID == DecodeProviderID(providerID)
    IN  IF isEmptyChars(serverID)
        THEN {NotLocated(NewErr("could not parse serverID from providerID"), {})}
        ELSE {IF cur.err # NoErr
              THEN NotLocated(IF IsNotFoundError(cur.err)
                              THEN WrapW("could not find server", ErrNotFound)
                              ELSE cur.err, {GetServerCall(serverID, cur)})
              ELSE Found(serverID, {GetServerCall(serverID, cur)})
              : cur \in GetServer(serverID)}

getMachineByProviderID(cfg, providerID) ==
    LET serverID == DecodeProviderID(providerID)
    IN  IF isEmptyChars(serverID)
        THEN {NotLocated(NewErr("could not parse serverID from providerID"), {})}
        ELSE UNION {
               LET log == {GetServerCall(serverID, cur)}
               IN  IF cur.err # NoErr
                   THEN {NotLocated(IF IsNotFoundError(cur.err)
                                    THEN WrapW("could not find server", ErrNotFound)
                                    ELSE cur.err, log)}
                   ELSE {IF HasTags(servers[serverID].metadata, keys)
                         THEN Found(serverID, log)
                         ELSE [NotLocated(WrapW("could not find server", ErrNotFound), log)
                                 EXCEPT !.fetched = <<servers[serverID].metadata>>]
                         : keys \in SearchKeys(cfg.Tags)}
               : cur \in GetServer(serverID)}

\* a faulty variant of matchingServers: the name of a listed server is not compared
matchingServers_anyName(listed, machineName, keys) ==
    {id \in listed : HasTags(servers[id].metadata, keys)}

\* the servers of the list that getMachineByName keeps
matchingServers(listed, machineName, keys) ==
    {id \in listed : /\ servers[id].name = machineName
                     /\ HasTags(servers[id].metadata, keys)}

\* a faulty variant of getMachineByName: of several matching servers one is returned
getMachineByName_first(cfg, machineName) ==
    UNION {
      IF keys.cluster = "" \/ keys.role = ""
      THEN {NotLocated(NewErr("cluster/role tags are missing"), {})}
      ELSE LET matching == matchingServers(ListServers(machineName), machineName, keys)
               listed == "ListServers"
           IN  {NotLocated(ClientErr("ListServers", "500"), {listed}),
                IF Cardinality(matching) = 0
                THEN NotLocated(WrapW("failed to find server", ErrNotFound), {listed})
                ELSE Found(CHOOSE id \in matching : TRUE, {listed})}
      : keys \in SearchKeys(cfg.Tags)}

getMachineByName(cfg, machineName) ==
    UNION {
      IF keys.cluster = "" \/ keys.role = ""
      THEN {NotLocated(NewErr("cluster/role tags are missing"), {})}
      ELSE LET matching == matchingServers(ListServers(machineName), machineName, keys)
               listed == "ListServers"
           IN  {NotLocated(ClientErr("ListServers", "500"),
                           {listed}),
                IF Cardinality(matching) > 1
                THEN NotLocated(WrapW("failed to find server", ErrMultipleFound),
                                {listed})
                ELSE IF Cardinality(matching) = 0
                THEN NotLocated(WrapW("failed to find server", ErrNotFound), {listed})
                ELSE Found(CHOOSE id \in matching : TRUE, {listed})}
      : keys \in SearchKeys(cfg.Tags)}

(***************************************************************************)
(* CreateMachine, steps 3 to 5: the wait for ACTIVE, the port patch, and   *)
(* deleteOnFail, which runs DeleteMachine inside CreateMachine.            *)
(***************************************************************************)
\* a faulty variant of deleteOnFail: the error is returned and nothing is deleted
deleteOnFail_noDelete(c, err, log) ==
    [c EXCEPT !.pc = "done", !.err = err, !.log = log]

\* deleteOnFail(err) calls DeleteMachine(ctx, machineName, providerID)
deleteOnFail(c, err, log) ==
    [c EXCEPT !.pc = "lookup", !.err0 = err, !.rollbacks = @ + 1,
              !.polls = 0, !.log = log, !.phases = Append(@, "rollback-delete")]

\* a faulty variant of deleteOnFailResult: a failed delete replaces the original error
deleteOnFailResult_masks(err, errIn) ==
    IF errIn # NoErr
    THEN [text |-> <<"error deleting server after unsuccessful creation attempt">>
                   \o errIn.text,
          is |-> errIn.is]
    ELSE err

\* what deleteOnFail returns once its DeleteMachine returned errIn
deleteOnFailResult(err, errIn) ==
    IF errIn # NoErr
    THEN [text |-> <<"error deleting server after unsuccessful creation attempt">>
                   \o errIn.text \o <<"Original error">> \o err.text,
          is |-> errIn.is]
    ELSE err

waitForActive(m) ==
    /\ call[m].pc = "waitActive"
    /\ LET c == call[m]
       IN  \E current \in GetServer(c.server) :
             LET w == waitForStatus(c.polls, current, <<ServerStatusBuild>>,
                                    <<ServerStatusActive>>, Deadline(CreateWaitSecs))
                 log == c.log \cup {GetServerCall(c.server, current)}
             IN  call' = [call EXCEPT ![m] =
                   CASE w.state = "done" ->
                          [c EXCEPT !.pc = "listPorts", !.log = log,
                                    !.last = Observed(current),
                                    !.phases = Append(@, "polling-active")]
                     [] w.state = "again" ->
                          [c EXCEPT !.polls = @ + 1, !.log = log,
                                    !.last = Observed(current)]
                     [] OTHER ->
                          deleteOnFail([c EXCEPT !.last = Observed(current)], WrapW("error waiting for server to reach target status",
                                                w.err), log)]
    /\ UNCHANGED <<config, poller, codec, servers, ports, nextServer, nextPort, ncalls>>

\* the network ids computePodNetworkIDs filters the server's ports by
podNetworkIDs(cfg) ==
    IF ~isEmptyString(cfg.NetworkID) THEN {cfg.NetworkID}
    ELSE {IF isEmptyString(n.Id) THEN ResolvedID(n.Name) ELSE n.Id :
             n \in {x \in Range(cfg.Networks) : x.PodNetwork}}

PodNetworksPlan(cfg, serverID) ==
    (IF ~isEmptyString(cfg.NetworkID) THEN <<>>
     ELSE LET byName == SelectSeq(cfg.Networks,
                            LAMBDA n : n.PodNetwork /\ isEmptyString(n.Id))
          IN  [i \in 1..Len(byName) |-> Call("NetworkIDFromName", byName[i].Name)])
    \o <<Call("ListPorts", serverID)>>

\* computePodNetworkIDs once every call of its plan succeeded
computePodNetworkIDs(cfg, serverID) ==
    LET serverPorts == {p \in DOMAIN ports : ports[p].deviceID = serverID}
        result == {p \in serverPorts : ports[p].networkID \in podNetworkIDs(cfg)}
    IN  IF serverPorts = {}
        THEN [result |-> <<>>, err |-> NewErr("got an empty port list for server")]
        ELSE IF result = {}
        THEN [result |-> <<>>, err |-> NewErr("no port candidates found for pod network")]
        ELSE [result |-> Ascending(result), err |-> NoErr]

\* computePodNetworkIDs with the calls it issued; fail = 0: no call failed
podNetworkPorts(cfg, serverID, fail) ==
    LET plan == PodNetworksPlan(cfg, serverID)
        r == computePodNetworkIDs(cfg, serverID)
    IN  IF fail = 0
        THEN [result |-> r.result, err |-> r.err, log |-> Issued(plan, 0)]
        ELSE [result |-> <<>>, log |-> Issued(plan, fail),
              err |-> IF plan[fail].op = "ListPorts"
                      THEN WrapV("failed to get ports", ClientErr("ListPorts", "500"))
                      ELSE ClientErr(plan[fail].op, "500")]

PatchFailed(c, err, log) ==
    deleteOnFail(c, WrapV("failed to patch server ports", err), log)

patchServerPortsForPodNetwork(m) ==
    /\ call[m].pc = "listPorts"
    /\ LET c == call[m]
       IN  \E fail \in 0..Len(PodNetworksPlan(config, c.server)) :
             LET r == podNetworkPorts(config, c.server, fail)
                 log == c.log \cup r.log
             IN  call' = [call EXCEPT ![m] =
                   IF r.err # NoErr THEN PatchFailed(c, r.err, log)
                   ELSE [c EXCEPT !.pc = "updatePort", !.todo = r.result,
                                  !.podPorts = r.result, !.log = log]]
    /\ UNCHANGED <<config, poller, codec, servers, ports, nextServer, nextPort, ncalls>>

\* a faulty variant of UpdatePort: the update is reported done and the port is left as it was
UpdatePort_skips(m) ==
    /\ call[m].pc = "updatePort"
    /\ LET c == call[m]
           port == Head(c.todo)
           upd == "UpdatePort"
       IN  call' = [call EXCEPT ![m] =
              IF Len(c.todo) = 1
              THEN [c EXCEPT !.pc = "done", !.todo = <<>>, !.id = c.pid,
                             !.log = c.log \cup {upd},
                             !.portsUpdated = @ \cup {port},
                             !.phases = @ \o <<"ports-patched", "done">>]
              ELSE [c EXCEPT !.todo = Tail(c.todo), !.log = c.log \cup {upd},
                             !.portsUpdated = @ \cup {port}]]
    /\ UNCHANGED <<config, poller, codec, servers, ports, nextServer, nextPort, ncalls>>

\* one turn of the loop over podNetworkPorts; CreateMachine returns the
\* providerID when the loop is over
UpdatePort(m) ==
    /\ call[m].pc = "updatePort"
    /\ LET c == call[m]
           port == Head(c.todo)
           upd == "UpdatePort"
       IN  \E ok \in BOOLEAN :
             IF ok /\ port \in DOMAIN ports
             THEN /\ ports' = [ports EXCEPT ![port].pairs = {config.PodNetworkCidr}]
                  /\ call' = [call EXCEPT ![m] =
                        IF Len(c.todo) = 1
                        THEN [c EXCEPT !.pc = "done", !.todo = <<>>, !.id = c.pid,
                                       !.log = c.log \cup {upd},
                                       !.portsUpdated = @ \cup {port},
                                       !.phases = @ \o <<"ports-patched", "done">>]
                        ELSE [c EXCEPT !.todo = Tail(c.todo), !.log = c.log \cup {upd},
                                       !.portsUpdated = @ \cup {port}]]
             ELSE /\ ~ok
                  /\ ports' = ports
                  /\ call' = [call EXCEPT ![m] =
                        PatchFailed(c, WrapV("failed to update allowed address pair for port",
                                             ClientErr("UpdatePort", "500")),
                                    c.log \cup {upd})]
    /\ UNCHANGED <<config, poller, codec, servers, nextServer, nextPort, ncalls>>

(***************************************************************************)
(* DeleteMachine, called by the controller or by deleteOnFail.             *)
(***************************************************************************)
\* DeleteMachine returns errIn: to the controller, or to deleteOnFail
Return(c, errIn, log) ==
    [c EXCEPT !.pc = "done", !.log = log, !.errIn = errIn,
              !.err = IF c.op = "create" THEN deleteOnFailResult(c.err0, errIn)
                      ELSE errIn]

\* the provider identifiers the controller may hand to DeleteMachine
\* (none, a malformed one, and those of the servers made so far and the next)
ProviderIDs ==
    {<<>>, Chars("bogus")}
    \cup {EncodeProviderID(Region, ServerIDOf(n)) : n \in 1..nextServer}

DeleteMachine(m) ==
    /\ CanBegin(m)
    /\ \E providerID \in ProviderIDs :
          call' = Begin(m, "delete", providerID, "lookup")
    /\ ncalls' = ncalls + 1
    /\ UNCHANGED <<config, poller, codec, servers, ports, nextServer, nextPort>>

\* the lookup DeleteMachine makes
locate(cfg, machineName, providerID) ==
    IF isEmptyChars(providerID)
    THEN getMachineByName(cfg, machineName)
    ELSE getMachineByProviderID(cfg, providerID)

\* a faulty variant of afterLookup: not-found is returned like any other error
afterLookup_errOnAbsent(c, r) ==
    IF r.err # NoErr
    THEN Return(c, r.err, c.log \cup r.log)
    ELSE [c EXCEPT !.pc = "deleteServer", !.server = r.server,
                   !.log = c.log \cup r.log, !.phases = Append(@, "located")]

\* a faulty variant of afterLookup: every error of the lookup is taken for success
afterLookup_absorbAll(c, r) ==
    IF r.err # NoErr
    THEN Return(c, NoErr, c.log \cup r.log)
    ELSE [c EXCEPT !.pc = "deleteServer", !.server = r.server,
                   !.log = c.log \cup r.log, !.phases = Append(@, "located")]

\* DeleteMachine after the lookup returned r: go on to delete the server,
\* or return
afterLookup(c, r) ==
    IF r.err # NoErr
    THEN IF ErrorsIs(r.err, "ErrNotFound")
         THEN Return(c, NoErr, c.log \cup r.log)
         ELSE Return(c, r.err, c.log \cup r.log)
    ELSE [c EXCEPT !.pc = "deleteServer", !.server = r.server,
                   !.log = c.log \cup r.log, !.phases = Append(@, "located")]

lookup(m) ==
    /\ call[m].pc = "lookup"
    /\ \E r \in locate(config, m, call[m].pid) :
          call' = [call EXCEPT ![m] =
             afterLookup([call[m] EXCEPT !.looked = TRUE, !.lookupErr = r.err,
                                         !.fetched = r.fetched], r)]
    /\ UNCHANGED <<config, poller, codec, servers, ports, nextServer, nextPort, ncalls>>

DeleteServer(m) ==
    /\ call[m].pc = "deleteServer"
    /\ LET c == call[m]
           del == "DeleteServer"
       IN  \E ok \in BOOLEAN :
             IF ok /\ c.server \in DOMAIN servers
             THEN /\ servers' = [servers EXCEPT ![c.server].deleting = TRUE]
                  /\ call' = [call EXCEPT ![m] =
                        [c EXCEPT !.pc = "waitDeleted", !.polls = 0,
                                  !.log = c.log \cup {del},
                                  !.deleted = @ \cup {c.server},
                                  !.phases = Append(@, "delete-issued")]]
             ELSE /\ ~ok
                  /\ servers' = servers
                  /\ call' = [call EXCEPT ![m] =
                        Return(c, ClientErr("DeleteServer", "500"),
                               c.log \cup {del})]
    /\ UNCHANGED <<config, poller, codec, ports, nextServer, nextPort, ncalls>>

\* a faulty variant of afterDeleted: the port is deleted whether or not a subnet is set
afterDeleted_always(c, log) ==
    [c EXCEPT !.pc = "deletePort", !.log = log, !.phases = Append(@, "deleted")]

\* DeleteMachine after the wait for the deleted state succeeded
afterDeleted(c, log) ==
    IF ~isEmptyString(config.SubnetID)
    THEN [c EXCEPT !.pc = "deletePort", !.log = log, !.phases = Append(@, "deleted")]
    ELSE Return([c EXCEPT !.phases = Append(@, "deleted")], NoErr, log)

\* what DeleteMachine returns when its wait failed with err
deleteWaitErr(err) == WrapV("error while waiting for server to be deleted", err)

waitForDeleted(m) ==
    /\ call[m].pc = "waitDeleted"
    /\ LET c == call[m]
       IN  \E current \in GetServer(c.server) :
             LET w == waitForStatus(c.polls, current, <<>>,
                                    <<ServerStatusDeleted>>, Deadline(DeleteWaitSecs))
                 log == c.log \cup {GetServerCall(c.server, current)}
             IN  call' = [call EXCEPT ![m] =
                   CASE w.state = "done" ->
                          afterDeleted([c EXCEPT !.last = Observed(current)], log)
                     [] w.state = "again" ->
                          [c EXCEPT !.polls = @ + 1, !.log = log,
                                    !.last = Observed(current)]
                     [] OTHER ->
                          Return([c EXCEPT !.last = Observed(current)],
                                 deleteWaitErr(w.err), log)]
    /\ UNCHANGED <<config, poller, codec, servers, ports, nextServer, nextPort, ncalls>>

\* Network.PortIDFromName: the one port of that name
PortIDFromName(name) ==
    LET named == {p \in DOMAIN ports : ports[p].name = name}
    IN  {[id |-> 0, err |-> ClientErr("PortIDFromName", "500")]}
        \cup (IF named = {}
              THEN {[id |-> 0, err |-> ClientErr("PortIDFromName", "404")]}
              ELSE IF Cardinality(named) > 1
              THEN {[id |-> 0, err |-> ClientErr("PortIDFromName", "multiple")]}
              ELSE {[id |-> CHOOSE p \in named : TRUE, err |-> NoErr]})

\* deletePort up to the answer of Network.PortIDFromName
deletePort(m) ==
    /\ call[m].pc = "deletePort"
    /\ LET c == call[m]
           find == "PortIDFromName"
       IN  \E r \in PortIDFromName(m) :
             call' = [call EXCEPT ![m] =
                IF r.err # NoErr
                THEN IF IsNotFoundError(r.err)
                     THEN Return([c EXCEPT !.portFound = "404"], NoErr,
                                 c.log \cup {find})
                     ELSE Return([c EXCEPT !.portFound = "err"],
                                 WrapV("error deleting port with name", r.err),
                                 c.log \cup {find})
                ELSE [c EXCEPT !.pc = "DeletePort", !.portFound = "ok",
                               !.portID = r.id, !.log = c.log \cup {find}]]
    /\ UNCHANGED <<config, poller, codec, servers, ports, nextServer, nextPort, ncalls>>

\* deletePort from Network.DeletePort on: the port found is deleted, unless
\* the call fails or the port is gone by now
DeletePort(m) ==
    /\ call[m].pc = "DeletePort"
    /\ LET c == call[m]
           del == "DeletePort"
       IN  \E ok \in BOOLEAN :
             IF ok
             THEN /\ ports' = [p \in DOMAIN ports \ {c.portID} |-> ports[p]]
                  /\ call' = [call EXCEPT ![m] =
                        IF c.portID \in DOMAIN ports
                        THEN Return([c EXCEPT !.portsDeleted = @ \cup {c.portID}],
                                    NoErr, c.log \cup {del})
                        ELSE Return(c, ClientErr("DeletePort", "404"),
                                    c.log \cup {del})]
             ELSE /\ ports' = ports
                  /\ call' = [call EXCEPT ![m] =
                        Return(c, ClientErr("DeletePort", "500"), c.log \cup {del})]
    /\ UNCHANGED <<config, poller, codec, servers, nextServer, nextPort, ncalls>>

(***************************************************************************)
(* GetMachineStatus and ListMachines.                                      *)
(***************************************************************************)
GetMachineStatus(m) ==
    /\ CanBegin(m)
    /\ call' = Begin(m, "status", <<>>, "statusLookup")
    /\ ncalls' = ncalls + 1
    /\ UNCHANGED <<config, poller, codec, servers, ports, nextServer, nextPort>>

statusLookup(m) ==
    /\ call[m].pc = "statusLookup"
    /\ LET c == call[m]
       IN  \E r \in getMachineByName(config, m) :
             call' = [call EXCEPT ![m] =
                IF r.err # NoErr
                THEN [c EXCEPT !.pc = "done", !.err = r.err, !.log = c.log \cup r.log]
                ELSE [c EXCEPT !.pc = "verify", !.server = r.server,
                               !.log = c.log \cup r.log]]
    /\ UNCHANGED <<config, poller, codec, servers, ports, nextServer, nextPort, ncalls>>

\* the loop of verifyServerPortsForPodNetwork over the pod network ports
unpatched(cfg, podPorts) ==
    {p \in Range(podPorts) : cfg.PodNetworkCidr \notin ports[p].pairs}

\* a faulty variant of verifyServerPortsForPodNetwork: the allowed address
\* pairs of the ports are not looked at
verifyServerPortsForPodNetwork_unchecked(m) ==
    /\ call[m].pc = "verify"
    /\ LET c == call[m]
       IN  \E fail \in 0..Len(PodNetworksPlan(config, c.server)) :
             LET r == podNetworkPorts(config, c.server, fail)
                 log == c.log \cup r.log
             IN  call' = [call EXCEPT ![m] =
                   IF r.err # NoErr
                   THEN [c EXCEPT !.pc = "done", !.err = r.err, !.log = log]
                   ELSE [c EXCEPT !.pc = "done", !.log = log,
                                  !.id = EncodeProviderID(config.Region, c.server)]]
    /\ UNCHANGED <<config, poller, codec, servers, ports, nextServer, nextPort, ncalls>>

\* a faulty variant of verifyServerPortsForPodNetwork: it patches the ports it finds
\* unpatched, as patchServerPortsForPodNetwork does
verifyServerPortsForPodNetwork_patches(m) ==
    /\ call[m].pc = "verify"
    /\ LET c == call[m]
           r == podNetworkPorts(config, c.server, 0)
       IN  /\ ports' = [p \in DOMAIN ports |->
                          IF p \in Range(r.result)
                          THEN [ports[p] EXCEPT !.pairs = {config.PodNetworkCidr}]
                          ELSE ports[p]]
           /\ call' = [call EXCEPT ![m] =
                 IF r.err # NoErr
                 THEN [c EXCEPT !.pc = "done", !.err = r.err, !.log = c.log \cup r.log]
                 ELSE [c EXCEPT !.pc = "done", !.log = c.log \cup r.log,
                                !.id = EncodeProviderID(config.Region, c.server)]]
    /\ UNCHANGED <<config, poller, codec, servers, nextServer, nextPort, ncalls>>

verifyServerPortsForPodNetwork(m) ==
    /\ call[m].pc = "verify"
    /\ LET c == call[m]
       IN  \E fail \in 0..Len(PodNetworksPlan(config, c.server)) :
             LET r == podNetworkPorts(config, c.server, fail)
                 log == c.log \cup r.log
             IN  call' = [call EXCEPT ![m] =
                   IF r.err # NoErr
                   THEN [c EXCEPT !.pc = "done", !.err = r.err, !.log = log]
                   ELSE IF unpatched(config, r.result) # {}
                   THEN [c EXCEPT !.pc = "done", !.log = log,
                                  !.err = NewErr("port is not configured for pod network")]
                   ELSE [c EXCEPT !.pc = "done", !.log = log,
                                  !.id = EncodeProviderID(config.Region, c.server)]]
    /\ UNCHANGED <<config, poller, codec, servers, ports, nextServer, nextPort, ncalls>>

ListMachines(m) ==
    /\ CanBegin(m)
    /\ call' = Begin(m, "list", <<>>, "list")
    /\ ncalls' = ncalls + 1
    /\ UNCHANGED <<config, poller, codec, servers, ports, nextServer, nextPort>>

\* the map ListMachines builds from the listed servers
ownedMachines(cfg, keys) ==
    LET owned == {id \in DOMAIN servers : HasTags(servers[id].metadata, keys)}
    IN  [pid \in {EncodeProviderID(cfg.Region, id) : id \in owned} |->
            servers[DecodeProviderID(pid)].name]

\* a faulty variant of listServers: the servers are listed whether or not the
\* tag names are configured
listServers_noTagCheck(m) ==
    /\ call[m].pc = "list"
    /\ LET c == call[m]
           listed == "ListServers"
       IN  \E keys \in SearchKeys(config.Tags), ok \in BOOLEAN :
             call' = [call EXCEPT ![m] =
                IF ~ok
                THEN [c EXCEPT !.pc = "done", !.err = ClientErr("ListServers", "500"),
                               !.log = c.log \cup {listed}]
                ELSE [c EXCEPT !.pc = "done", !.machines = ownedMachines(config, keys),
                               !.log = c.log \cup {listed}]]
    /\ UNCHANGED <<config, poller, codec, servers, ports, nextServer, nextPort, ncalls>>

\* ListMachines after its entry: the tag names, the list query, the result
listServers(m) ==
    /\ call[m].pc = "list"
    /\ LET c == call[m]
           listed == "ListServers"
       IN  \E keys \in SearchKeys(config.Tags), ok \in BOOLEAN :
             call' = [call EXCEPT ![m] =
                IF keys.cluster = "" \/ keys.role = ""
                THEN [c EXCEPT !.pc = "done",
                               !.err = NewErr("cluster/role tags are missing")]
                ELSE IF ~ok
                THEN [c EXCEPT !.pc = "done", !.err = ClientErr("ListServers", "500"),
                               !.log = c.log \cup {listed}]
                ELSE [c EXCEPT !.pc = "done", !.machines = ownedMachines(config, keys),
                               !.log = c.log \cup {listed}]]
    /\ UNCHANGED <<config, poller, codec, servers, ports, nextServer, nextPort, ncalls>>

(***************************************************************************)
(* The provider: servers leave BUILD, deleted servers go away, and a       *)
(* server may be removed behind the executor's back.                       *)
(***************************************************************************)
\* the ports left when server id is gone: the ports the provider made for it
\* go with it, a pre-allocated port is only detached
Detach(id) ==
    LET kept == {p \in DOMAIN ports :
                    ports[p].deviceID # id \/ ports[p].preallocated}
    IN  [p \in kept |-> IF ports[p].deviceID = id
                        THEN [ports[p] EXCEPT !.deviceID = <<>>]
                        ELSE ports[p]]

ProviderBuilds(id) ==
    /\ id \in DOMAIN servers
    /\ servers[id].status = ServerStatusBuild
    /\ ~servers[id].deleting
    /\ \E status \in {ServerStatusActive, ServerStatusError} :
          servers' = [servers EXCEPT ![id].status = status]
    /\ UNCHANGED <<config, poller, codec, ports, nextServer, nextPort, call, ncalls>>

ProviderDeletes(id) ==
    /\ id \in DOMAIN servers
    /\ servers[id].deleting
    /\ servers[id].status # ServerStatusDeleted
    /\ \/ servers' = [s \in DOMAIN servers \ {id} |-> servers[s]]
       \/ servers' = [servers EXCEPT ![id].status = ServerStatusDeleted]
    /\ ports' = Detach(id)
    /\ UNCHANGED <<config, poller, codec, nextServer, nextPort, call, ncalls>>

\* before the executor's first call another client of the provider has made
\* a server, under its own configuration
OtherClientCreates(m) ==
    /\ ncalls = 0
    /\ nextServer <= MaxOther
    /\ \E tags \in {OwnedTags} \cup (IF m = Machine THEN {{"c1", "x"}} ELSE {}) :
          servers' = servers @@
              (ServerIDOf(nextServer) :>
                  [name |-> m, status |-> ServerStatusActive,
                   metadata |-> tags, deleting |-> FALSE])
    /\ nextServer' = nextServer + 1
    /\ UNCHANGED <<config, poller, codec, ports, nextPort, call, ncalls>>

ProviderLoses(id) ==
    /\ id \in DOMAIN servers
    /\ ~servers[id].deleting
    /\ servers[id].status = ServerStatusBuild
    /\ servers' = [s \in DOMAIN servers \ {id} |-> servers[s]]
    /\ ports' = Detach(id)
    /\ UNCHANGED <<config, poller, codec, nextServer, nextPort, call, ncalls>>

ServerIDs == {ServerIDOf(n) : n \in 1..(MaxCalls + MaxOther)}

Next ==
    \/ \E m \in Names : CreateMachine(m)
    \/ \E m \in Names : computeServerNetworks(m)
    \/ \E m \in Names : deployServer(m)
    \/ \E m \in Names : waitForActive(m)
    \/ \E m \in Names : patchServerPortsForPodNetwork(m)
    \/ \E m \in Names : UpdatePort(m)
    \/ \E m \in Names : DeleteMachine(m)
    \/ \E m \in Names : lookup(m)
    \/ \E m \in Names : DeleteServer(m)
    \/ \E m \in Names : waitForDeleted(m)
    \/ \E m \in Names : deletePort(m)
    \/ \E m \in Names : DeletePort(m)
    \/ \E m \in Names : GetMachineStatus(m)
    \/ \E m \in Names : statusLookup(m)
    \/ \E m \in Names : verifyServerPortsForPodNetwork(m)
    \/ \E m \in Names : ListMachines(m)
    \/ \E m \in Names : listServers(m)
    \/ \E id \in ServerIDs : ProviderBuilds(id)
    \/ \E id \in ServerIDs : ProviderDeletes(id)
    \/ \E id \in ServerIDs : ProviderLoses(id)
    \/ \E m \in Names : OtherClientCreates(m)

Spec == Init /\ [][Next]_vars

(***************************************************************************)
(* Calls for distinct machine names in parallel: the controller runs one   *)
(* call at a time for each machine name, and the calls of different names  *)
(* interleave at every call of the client.                                 *)
(***************************************************************************)
\* a call for machine m may begin: each name gets one call
CanBeginPar(m) == call[m].op = "none"

BeginPar(m, op, pid, pc) ==
    [call EXCEPT ![m] = [Idle EXCEPT !.op = op, !.pc = pc, !.pid = pid]]

\* the ports of a server that a successful CreateMachine leaves: the
\* pre-allocated port, or the ports the provider made, those of the pod
\* networks patched with the CIDR
PortsPerServer(cfg) == Len(serverNetworks(cfg, 0))
PortAfterCreate(cfg, m, id, i) ==
    IF PreallocatesPort(cfg)
    THEN [NewPort(cfg, m) EXCEPT !.deviceID = id]
    ELSE LET net == serverNetworks(cfg, 0)[i].UUID
         IN  [name |-> "", networkID |-> net, subnet |-> "",
              pairs |-> IF net \in podNetworkIDs(cfg)
                        THEN {cfg.PodNetworkCidr} ELSE {},
              groups |-> {}, deviceID |-> id, preallocated |-> FALSE]

NameOrder == <<"m1", "m12">>

\* the provider after earlier successful CreateMachine calls for the names
\* in existing, one after the other, under a configuration that names both
\* ownership tags
InitPar ==
    /\ config \in {c \in Configs : \A keys \in SearchKeys(c.Tags) :
                                      keys.cluster # "" /\ keys.role # ""}
    /\ \E existing \in {{"m1"}, Names} :
          LET ex == SelectSeq(NameOrder, LAMBDA n : n \in existing)
              k == PortsPerServer(config)
          IN  /\ servers = [id \in {ServerIDOf(i) : i \in 1..Len(ex)} |->
                              [name |-> ex[CHOOSE i \in 1..Len(ex) : ServerIDOf(i) = id],
                               status |-> ServerStatusActive,
                               metadata |-> config.Tags, deleting |-> FALSE]]
              /\ ports = [p \in 1..(k * Len(ex)) |->
                            LET i == ((p - 1) \div k) + 1
                            IN  PortAfterCreate(config, ex[i], ServerIDOf(i),
                                                ((p - 1) % k) + 1)]
              /\ nextServer = Len(ex) + 1
              /\ nextPort = k * Len(ex) + 1
    /\ ncalls = 0
    /\ call = [n \in Names |-> Idle]
    /\ poller = NoPoller
    /\ codec = NoCodec

CreateMachinePar(m) ==
    /\ CanBeginPar(m)
    /\ call' = BeginPar(m, "create", <<>>, "networks")
    /\ ncalls' = ncalls + 1
    /\ UNCHANGED <<config, poller, codec, servers, ports, nextServer, nextPort>>

DeleteMachinePar(m) ==
    /\ CanBeginPar(m)
    /\ \E providerID \in ProviderIDs :
          call' = BeginPar(m, "delete", providerID, "lookup")
    /\ ncalls' = ncalls + 1
    /\ UNCHANGED <<config, poller, codec, servers, ports, nextServer, nextPort>>

NextPar ==
    \/ \E m \in Names : CreateMachinePar(m)
    \/ \E m \in Names : computeServerNetworks(m)
    \/ \E m \in Names : deployServer(m)
    \/ \E m \in Names : waitForActive(m)
    \/ \E m \in Names : patchServerPortsForPodNetwork(m)
    \/ \E m \in Names : UpdatePort(m)
    \/ \E m \in Names : DeleteMachinePar(m)
    \/ \E m \in Names : lookup(m)
    \/ \E m \in Names : DeleteServer(m)
    \/ \E m \in Names : waitForDeleted(m)
    \/ \E m \in Names : deletePort(m)
    \/ \E m \in Names : DeletePort(m)
    \/ \E id \in DOMAIN servers : ProviderBuilds(id)
    \/ \E id \in DOMAIN servers : ProviderDeletes(id)

SpecPar == InitPar /\ [][NextPar]_vars

(***************************************************************************)
(* GetMachineStatus right after CreateMachine: the controller asks for the *)
(* status of the machine whose CreateMachine has just returned an          *)
(* identifier, and keeps that identifier (pid) to compare.                 *)
(***************************************************************************)
GetMachineStatusAfterCreate(m) ==
    /\ ncalls < MaxCalls
    /\ call[m].op = "create" /\ Finished(call[m]) /\ call[m].err = NoErr
    /\ call' = [call EXCEPT ![m] =
                   [Idle EXCEPT !.op = "status", !.pc = "statusLookup",
                                !.pid = call[m].id]]
    /\ ncalls' = ncalls + 1
    /\ UNCHANGED <<config, poller, codec, servers, ports, nextServer, nextPort>>

NextAfterCreate ==
    \/ \E m \in Names : CreateMachine(m)
    \/ \E m \in Names : computeServerNetworks(m)
    \/ \E m \in Names : deployServer(m)
    \/ \E m \in Names : waitForActive(m)
    \/ \E m \in Names : patchServerPortsForPodNetwork(m)
    \/ \E m \in Names : UpdatePort(m)
    \/ \E m \in Names : lookup(m)
    \/ \E m \in Names : DeleteServer(m)
    \/ \E m \in Names : waitForDeleted(m)
    \/ \E m \in Names : deletePort(m)
    \/ \E m \in Names : DeletePort(m)
    \/ \E m \in Names : GetMachineStatusAfterCreate(m)
    \/ \E m \in Names : statusLookup(m)
    \/ \E m \in Names : verifyServerPortsForPodNetwork(m)
    \/ \E id \in ServerIDs : ProviderBuilds(id)
    \/ \E id \in ServerIDs : ProviderDeletes(id)
    \/ \E id \in ServerIDs : ProviderLoses(id)
    \/ \E m \in Names : OtherClientCreates(m)

SpecAfterCreate == Init /\ [][NextAfterCreate]_vars

(***************************************************************************)
(* waitForStatus on its own: the provider's answers to the queries of one  *)
(* wait are scripted, one answer for every tick up to the deadline.        *)
(***************************************************************************)
\* longest deadline of a scripted wait, in ticks
MaxSecs == 3

\* what a query may return: a status, not-found, or another failure
Answers ==
    {ServerStatusBuild, ServerStatusActive, ServerStatusError,
     ServerStatusDeleted, "404", "500"}

\* the answer as Compute.GetServer returns it
Answer(a) ==
    IF a \in {"404", "500"}
    THEN [err |-> ClientErr("GetServer", a), status |-> ""]
    ELSE [err |-> NoErr, status |-> a]

\* the waits of the Executor are among these: pending BUILD with target
\* ACTIVE (CreateMachine), no pending status with target DELETED
\* (DeleteMachine)
InitPoll ==
    /\ config = Config("net1", "", <<>>, "img1", 10, OwnedTags)
    /\ servers = << >>
    /\ ports = << >>
    /\ nextServer = 1
    /\ nextPort = 1
    /\ ncalls = 0
    /\ call = [n \in Names |-> Idle]
    /\ codec = NoCodec
    /\ \E secs \in 1..MaxSecs :
       \E script \in [1..secs -> Answers],
          pending \in {<<>>, <<ServerStatusBuild>>},
          target \in {<<ServerStatusActive>>, <<ServerStatusDeleted>>} :
            poller = [state |-> "again", script |-> script, pending |-> pending,
                      target |-> target, secs |-> secs, polls |-> 0,
                      err |-> NoErr, ret |-> NoErr]

\* one tick: the query, the condition, the deadline; ret is what DeleteMachine
\* returns when the wait is its own
Poll ==
    /\ poller.state = "again"
    /\ LET at == Min(poller.polls + 1, Len(poller.script))
           current == Answer(poller.script[at])
           w == waitForStatus(poller.polls, current, poller.pending,
                              poller.target, poller.secs)
       IN  poller' = [poller EXCEPT
                         !.state = w.state, !.err = w.err, !.polls = @ + 1,
                         !.ret = IF w.state = "failed"
                                 THEN deleteWaitErr(w.err) ELSE NoErr]
    /\ UNCHANGED <<config, codec, servers, ports, nextServer, nextPort, call, ncalls>>

NextPoll == Poll

SpecPoll == InitPoll /\ [][NextPoll]_vars

\* the poller runs: wait.Poll blocks its caller until it returns
SpecPollFair == SpecPoll /\ WF_vars(Poll)

(***************************************************************************)
(* A provider identifier on its own: CreateMachine encodes the id of the   *)
(* server it made with the region of the configuration, and the lookup by  *)
(* identifier decodes what the controller hands back.                      *)
(***************************************************************************)
\* longest region and server id
MaxLen == 2

Alphabet == {"a", "b", "/"}
Strings == UNION {[1..n -> Alphabet] : n \in 1..MaxLen}

\* strings the controller may hand over that nobody encoded
Strays ==
    {<<>>, Chars("bogus"), ProviderPrefix, Tail(ProviderPrefix) \o <<"a", "/", "b">>}
    \cup {ProviderPrefix \o str : str \in Strings}
    \cup {str \o <<"/">> \o str : str \in Strings}

InitCodec ==
    /\ \E region \in Strings, id \in Strings :
          /\ config = [Config("net1", "", <<>>, "img1", 10, OwnedTags)
                          EXCEPT !.Region = region]
          /\ \/ /\ servers = (id :> [name |-> Machine, status |-> ServerStatusActive,
                                     metadata |-> config.Tags, deleting |-> FALSE])
                /\ codec = [stage |-> "server", id |-> id, pid |-> <<>>,
                            raw |-> <<>>, located |-> <<>>, err |-> NoErr, log |-> {}]
             \/ /\ servers = << >>
                /\ region = <<"a">> /\ id = <<"a">>
                /\ \E stray \in Strays :
                      codec = [stage |-> "encoded", id |-> <<>>, pid |-> stray,
                               raw |-> <<>>, located |-> <<>>, err |-> NoErr, log |-> {}]
    /\ ports = << >>
    /\ nextServer = 1
    /\ nextPort = 1
    /\ ncalls = 0
    /\ call = [n \in Names |-> Idle]
    /\ poller = NoPoller

\* CreateMachine: providerID := EncodeProviderID(ex.Config.Spec.Region, server.ID)
Encode ==
    /\ codec.stage = "server"
    /\ codec' = [codec EXCEPT !.stage = "encoded",
                              !.pid = EncodeProviderID(config.Region, codec.id)]
    /\ UNCHANGED <<config, poller, servers, ports, nextServer, nextPort, call, ncalls>>

\* getMachineByProviderID: serverID := DecodeProviderID(providerID), and the
\* lookup that follows
Decode ==
    /\ codec.stage = "encoded"
    /\ \E r \in getMachineByProviderID(config, codec.pid) :
          codec' = [codec EXCEPT !.stage = "decoded",
                                 !.raw = DecodeProviderID(codec.pid),
                                 !.located = r.server, !.err = r.err, !.log = r.log]
    /\ UNCHANGED <<config, poller, servers, ports, nextServer, nextPort, call, ncalls>>

NextCodec == Encode \/ Decode

SpecCodec == InitCodec /\ [][NextCodec]_vars

(***************************************************************************)
(* The properties of the Executor.                                         *)
(***************************************************************************)
Submitted(c) == "submitted" \in Range(c.phases)

\* not-found, as DeleteMachine tests it
NotFound(err) == ErrorsIs(err, "ErrNotFound")

DeleteCalls == {"DeleteServer", "PortIDFromName", "DeletePort"}

\* the server is at the provider and not in the deleted state
Exists(id) == id \in DOMAIN servers /\ servers[id].status # ServerStatusDeleted

\* the phases of the DeleteMachine a call has run: the call itself, or the
\* one deleteOnFail started
DeletePhases == <<"located", "delete-issued", "deleted">>
CreatePhases ==
    <<"networks-resolved", "submitted", "polling-active", "ports-patched", "done">>

RECURSIVE After(_, _)
After(phases, mark) ==
    IF phases = <<>> THEN <<>>
    ELSE IF Head(phases) = mark THEN Tail(phases)
    ELSE After(Tail(phases), mark)

DeleteRun(c) ==
    IF c.op = "delete" THEN c.phases ELSE After(c.phases, "rollback-delete")

\* C1: whenever the lookup of DeleteMachine (by provider identifier when one
\* is given, otherwise by name) ends in not-found, DeleteMachine returns
\* success and has issued no delete-instance and no delete-port call.
C1_DeleteOfAbsentSucceeds ==
    \A n \in Names :
        LET c == call[n]
        IN  (Finished(c) /\ c.looked /\ NotFound(c.lookupErr))
            => /\ c.errIn = NoErr
               /\ c.op = "delete" => c.err = NoErr
               /\ c.log \cap DeleteCalls = {}

\* a DeleteMachine by provider identifier, and one by name, found nothing
C1_Witness ==
    \E n \in Names :
        /\ call[n].op = "delete" /\ Finished(call[n])
        /\ NotFound(call[n].lookupErr)
        /\ call[n].err = NoErr
        /\ isEmptyChars(call[n].pid)
        /\ "ListServers" \in call[n].log
        /\ servers # << >>

\* C2: in every CreateMachine run a failure after the create request was
\* submitted starts exactly one DeleteMachine, for the provider identifier of
\* the server that submission returned; a failure before the submission and
\* a successful CreateMachine start none.
C2_OneCompensatingDelete ==
    \A n \in Names :
        LET c == call[n]
        IN  c.op = "create"
            => /\ c.rollbacks <= 1
               /\ ~Submitted(c) => c.rollbacks = 0
               /\ (Finished(c) /\ c.err = NoErr) => c.rollbacks = 0
               /\ (Finished(c) /\ c.err # NoErr /\ Submitted(c)) => c.rollbacks = 1
               /\ c.rollbacks = 1
                  => /\ c.pid = EncodeProviderID(config.Region, c.created)
                     /\ DecodeProviderID(c.pid) = c.created
                     /\ c.deleted \subseteq {c.created}
                     /\ c.looked => c.server \in {<<>>, c.created}

\* a CreateMachine failed after the submission and deleted its server
C2_Witness ==
    \E n \in Names :
        /\ call[n].op = "create" /\ Finished(call[n])
        /\ call[n].rollbacks = 1
        /\ call[n].deleted = {call[n].created}
        /\ call[n].created # <<>>

\* C3: CreateMachine never returns success after a failure that follows the
\* submission: when the compensating delete succeeds it returns the original
\* error, and when the delete fails the error it returns carries the delete's
\* error and the original one.
C3_RollbackKeepsOriginalError ==
    \A n \in Names :
        LET c == call[n]
        IN  (c.op = "create" /\ Finished(c) /\ c.rollbacks > 0)
            => /\ c.err # NoErr
               /\ c.id = <<>>
               /\ c.err0 # NoErr
               /\ c.errIn = NoErr => c.err = c.err0
               /\ c.errIn # NoErr
                  => /\ IsSubSeq(c.errIn.text, c.err.text)
                     /\ IsSubSeq(c.err0.text, c.err.text)
                     /\ Len(c.err.text) > Len(c.errIn.text) + Len(c.err0.text)

\* a CreateMachine whose compensating delete failed too
C3_Witness ==
    \E n \in Names :
        /\ call[n].op = "create" /\ Finished(call[n])
        /\ call[n].rollbacks = 1
        /\ call[n].errIn # NoErr
        /\ call[n].err0 # NoErr

\* C4: when CreateMachine returns an error after the submission and the
\* compensating delete reported no failure, neither the server nor the port
\* this call created is still at the provider.
C4_RollbackLeavesNothing ==
    \A n \in Names :
        LET c == call[n]
        IN  (c.op = "create" /\ c.pc = "done" /\ Submitted(c)
             /\ c.err # NoErr /\ c.errIn = NoErr)
            => /\ ~Exists(c.created)
               /\ c.port # 0 => c.port \notin DOMAIN ports

\* C5: a CreateMachine that fails because an image, flavor, security group
\* or subnet cannot be resolved has issued no create-instance request and no
\* other call that changes the provider: it leaves no server and no port.
ResolutionCalls ==
    {"ImageIDFromName", "FlavorIDFromName", "GroupIDFromName", "GetSubnet"}
ResolutionFailed(c) ==
    /\ c.op = "create" /\ c.pc = "done" /\ ~Submitted(c)
    /\ Range(c.err.text) \cap ResolutionCalls # {}

C5_ResolutionFailureHasNoEffect ==
    \A n \in Names :
        LET c == call[n]
        IN  ResolutionFailed(c)
            => /\ c.log \cap MutatingOps = {}
               /\ c.port = 0

\* C6: every CreateMachine run passes through its phases in the order
\* networks-resolved, submitted, polling-active, ports-patched, done: the
\* create request is issued only after the networks were resolved, no port
\* is updated before the poller has observed the server ACTIVE, success is
\* returned only after every pod network port was updated, and the
\* compensating delete starts only from a failure after the submission.
C6_CreatePhasesInOrder ==
    \A n \in Names :
        LET c == call[n]
        IN  c.op = "create"
            => /\ \/ \E k \in 0..Len(CreatePhases) :
                        c.phases = SubSeq(CreatePhases, 1, k)
                  \/ \E k \in 2..3, j \in 0..Len(DeletePhases) :
                        c.phases = SubSeq(CreatePhases, 1, k)
                                   \o <<"rollback-delete">>
                                   \o SubSeq(DeletePhases, 1, j)
               /\ c.log \cap {"CreateServer", "BootFromVolume"} # {}
                  => /\ c.phases # <<>>
                     /\ Head(c.phases) = "networks-resolved"
               /\ "UpdatePort" \in c.log => "polling-active" \in Range(c.phases)
               /\ ("polling-active" \in Range(c.phases) /\ c.rollbacks = 0)
                  => c.last = ServerStatusActive
               /\ (Finished(c) /\ c.err = NoErr)
                  => /\ c.phases = CreatePhases
                     /\ c.id = EncodeProviderID(config.Region, c.created)
                     /\ c.podPorts # <<>>
                     /\ c.portsUpdated = Range(c.podPorts)

\* a CreateMachine returned its provider identifier
C6_Witness ==
    \E n \in Names :
        /\ call[n].op = "create" /\ Finished(call[n])
        /\ call[n].err = NoErr
        /\ call[n].phases = CreatePhases
        /\ call[n].portsUpdated # {}

\* C7: when DeleteMachine has located the server it issues the
\* delete-instance call, then waits until the server is seen deleted or
\* absent, and only after that wait succeeded, and only with a subnet id
\* configured, looks up and deletes the port named after the machine; a port
\* that is absent does not make DeleteMachine fail, and without a subnet no
\* port lookup or port delete is issued.
C7_DeleteStepsInOrder ==
    \A n \in Names :
        LET c == call[n]
            run == DeleteRun(c)
        IN  c.op \in {"delete", "create"}
            => /\ \E j \in 0..Len(DeletePhases) : run = SubSeq(DeletePhases, 1, j)
               /\ "DeleteServer" \in c.log => Len(run) >= 1
               /\ (Finished(c) /\ Len(run) >= 1) => "DeleteServer" \in c.log
               /\ Len(run) >= 2 => c.deleted = {c.server}
               /\ Len(run) = 3 => c.last \in {ServerStatusDeleted, "404"}
               /\ c.log \cap {"PortIDFromName", "DeletePort"} # {}
                  => /\ Len(run) = 3
                     /\ ~isEmptyString(config.SubnetID)
               /\ (Finished(c) /\ Len(run) = 3 /\ ~isEmptyString(config.SubnetID))
                  => "PortIDFromName" \in c.log
               /\ "DeletePort" \in c.log => c.portFound = "ok"
               /\ (Finished(c) /\ c.portFound = "404")
                  => /\ c.errIn = NoErr
                     /\ c.portsDeleted = {}

\* a DeleteMachine deleted the server, waited, and found no port to delete
C7_Witness ==
    \E n \in Names :
        /\ call[n].op = "delete" /\ Finished(call[n])
        /\ call[n].phases = DeletePhases
        /\ call[n].portFound = "404"
        /\ call[n].err = NoErr

\* C8: DeleteMachine absorbs only not-found: when the lookup fails because
\* the provider identifier is malformed, because more than one owned server
\* has the name, or because the configuration lacks an ownership tag name
\* for a lookup by name, DeleteMachine returns an error and has issued no
\* delete-instance and no delete-port call.
Malformed(c) == ~isEmptyChars(c.pid) /\ isEmptyChars(DecodeProviderID(c.pid))
LacksTagName(c) ==
    /\ isEmptyChars(c.pid)
    /\ \E keys \in SearchKeys(config.Tags) : keys.cluster = "" \/ keys.role = ""

C8_OnlyNotFoundIsAbsorbed ==
    \A n \in Names :
        LET c == call[n]
        IN  (Finished(c) /\ c.looked
             /\ \/ Malformed(c)
                \/ LacksTagName(c)
                \/ ErrorsIs(c.lookupErr, "ErrMultipleFound"))
            => /\ c.lookupErr # NoErr
               /\ c.errIn = c.lookupErr
               /\ c.op = "delete" => c.err = c.lookupErr
               /\ c.log \cap DeleteCalls = {}

\* a DeleteMachine by name found two owned servers of that name
C8_Witness ==
    \E n \in Names :
        /\ call[n].op = "delete" /\ Finished(call[n])
        /\ ErrorsIs(call[n].lookupErr, "ErrMultipleFound")
        /\ call[n].err # NoErr

\* C9: a lookup by provider identifier of a server that exists but whose
\* metadata lacks an ownership tag key is reported as not-found: DeleteMachine
\* with that identifier returns success, has issued no delete-instance call,
\* and leaves the server as it is.
LacksTags(c) ==
    /\ c.fetched # <<>>
    /\ \A keys \in SearchKeys(config.Tags) : ~HasTags(c.fetched[1], keys)

C9_UntaggedServerIsNotFound ==
    \A n \in Names :
        LET c == call[n]
        IN  (Finished(c) /\ c.looked /\ ~isEmptyChars(c.pid) /\ LacksTags(c))
            => /\ NotFound(c.lookupErr)
               /\ c.errIn = NoErr
               /\ c.op = "delete" => (c.err = NoErr /\ c.log \cap MutatingOps = {})
               /\ c.log \cap DeleteCalls = {}
               /\ c.deleted = {}

\* a DeleteMachine for the identifier of another client's server, which has
\* the cluster tag and lacks the role tag
C9_Witness ==
    \E n \in Names :
        /\ call[n].op = "delete" /\ Finished(call[n])
        /\ config.Tags = OwnedTags
        /\ call[n].fetched = <<{"c1", "x"}>>
        /\ call[n].err = NoErr
        /\ \E id \in DOMAIN servers :
              /\ call[n].pid = EncodeProviderID(config.Region, id)
              /\ ~servers[id].deleting

\* C10: GetMachineStatus is read-only: whatever its outcome it issues only
\* query calls (list servers, resolve a network name, list ports), and no
\* step of it changes the provider's servers or ports.
QueryCalls == {"ListServers", "NetworkIDFromName", "ListPorts"}

C10_StatusIsReadOnly ==
    [][\A n \in Names :
          (call'[n].op = "status" /\ call'[n] # call[n])
          => /\ call'[n].log \subseteq QueryCalls
             /\ servers' = servers
             /\ ports' = ports]_vars

\* a GetMachineStatus returned the provider identifier of the server
C10_Witness ==
    \E n \in Names :
        /\ call[n].op = "status" /\ Finished(call[n])
        /\ call[n].err = NoErr
        /\ call[n].log = {"ListServers", "ListPorts"}
        /\ DecodeProviderID(call[n].id) \in DOMAIN servers

\* C11: GetMachineStatus returns the encoded identifier of the server it
\* located if and only if the server has at least one port on a pod network
\* and every such port has the pod network CIDR among its allowed address
\* pairs (and its queries succeeded); when a pod network port lacks the CIDR,
\* or the server has no port, or none on a pod network, it returns an error
\* and no identifier.
PodPortsOf(id) ==
    {p \in DOMAIN ports : /\ ports[p].deviceID = id
                          /\ ports[p].networkID \in podNetworkIDs(config)}
Patched(id) ==
    /\ PodPortsOf(id) # {}
    /\ \A p \in PodPortsOf(id) : config.PodNetworkCidr \in ports[p].pairs
QueryFailed(err) == "500" \in Range(err.text)

C11_StatusVerifiesPodPorts ==
    [][\A n \in Names :
          (call[n].pc = "verify" /\ call'[n].pc = "done")
          => LET c == call'[n]
                 id == call[n].server
             IN  /\ c.id \in {<<>>, EncodeProviderID(config.Region, id)}
                 /\ c.id # <<>> <=> c.err = NoErr
                 /\ c.id # <<>> => Patched(id)
                 /\ ~Patched(id) => (c.err # NoErr /\ c.id = <<>>)
                 /\ (Patched(id) /\ ~QueryFailed(c.err))
                    => c.id = EncodeProviderID(config.Region, id)]_vars

\* a GetMachineStatus located a server with a pod network port that lacks the
\* CIDR, and returned an error
C11_Witness ==
    \E n \in Names :
        /\ call[n].op = "status" /\ Finished(call[n])
        /\ call[n].server \in DOMAIN servers
        /\ PodPortsOf(call[n].server) # {}
        /\ ~Patched(call[n].server)
        /\ call[n].err = NewErr("port is not configured for pod network")
        /\ call[n].id = <<>>

\* C12: ListMachines with a configuration whose tags lack the cluster tag
\* name or the role tag name returns a configuration error and issues no
\* list-servers query.
LacksOwnershipTag(tags) ==
    \/ {k \in tags : HasClusterPrefix(k)} = {}
    \/ {k \in tags : HasRolePrefix(k)} = {}

C12_ListNeedsTagNames ==
    \A n \in Names :
        LET c == call[n]
        IN  (c.op = "list" /\ Finished(c) /\ LacksOwnershipTag(config.Tags))
            => /\ c.err = NewErr("cluster/role tags are missing")
               /\ c.log = {}
               /\ c.machines = << >>

\* a ListMachines without the role tag name, at a provider that has a server
C12_Witness ==
    \E n \in Names :
        /\ call[n].op = "list" /\ Finished(call[n])
        /\ config.Tags = {"c1", "x"}
        /\ servers # << >>
        /\ call[n].err # NoErr
        /\ "ListServers" \notin call[n].log

\* what a step changes at the provider, and whose it is
ServerOf(n, id) ==
    \/ id \in DOMAIN servers /\ servers[id].name = n
    \/ id \in DOMAIN servers' /\ servers'[id].name = n
PortOf(n, p) ==
    \/ p \in DOMAIN ports /\ (ports[p].name = n \/ ServerOf(n, ports[p].deviceID))
    \/ p \in DOMAIN ports' /\ (ports'[p].name = n \/ ServerOf(n, ports'[p].deviceID))
ChangedServers ==
    {id \in DOMAIN servers \cup DOMAIN servers' :
        \/ id \notin DOMAIN servers \/ id \notin DOMAIN servers'
        \/ servers[id] # servers'[id]}
ChangedPorts ==
    {p \in DOMAIN ports \cup DOMAIN ports' :
        \/ p \notin DOMAIN ports \/ p \notin DOMAIN ports'
        \/ ports[p] # ports'[p]}

\* the calls change and delete only what belongs to their own machine name
OwnRecordsOnly ==
    \A n \in Names :
        LET c == call[n]
        IN  /\ c.server \in DOMAIN servers => servers[c.server].name = n
            /\ \A id \in c.deleted :
                  id \in DOMAIN servers => servers[id].name = n
            /\ \A p \in (c.portsDeleted \cup c.portsUpdated) \cap DOMAIN ports :
                  ports[p].name = n \/ ports[p].deviceID \in {<<>>, c.server}
            /\ ~ErrorsIs(c.lookupErr, "ErrMultipleFound")
            /\ ~ErrorsIs(c.err, "ErrMultipleFound")
OwnStepsOnly ==
    \A n \in Names :
        call'[n] # call[n]
        => /\ \A id \in ChangedServers : ServerOf(n, id)
           /\ \A p \in ChangedPorts : PortOf(n, p)
           /\ \A o \in Names \ {n} : call'[o] = call[o]

\* the servers the provider held before the calls, and whose they were
InitialCount == nextServer - 1 - Cardinality({n \in Names : call[n].created # <<>>})
InitialServer(n) == ServerIDOf(CHOOSE i \in 1..Len(NameOrder) : NameOrder[i] = n)
Existed(n) == \E i \in 1..InitialCount : NameOrder[i] = n

\* DeleteMachine was given no identifier, or that of the server of its name
OwnIdentifier(n, pid) ==
    \/ isEmptyChars(pid)
    \/ Existed(n) /\ pid = EncodeProviderID(config.Region, InitialServer(n))
OwnIdentifiers ==
    \A n \in Names : call[n].op = "delete" => OwnIdentifier(n, call[n].pid)

\* the outcome a DeleteMachine for n has when no other call runs: it finds
\* the one server of its name, or none when there is none; when it succeeds
\* that server and the port of its name are gone; it fails only when a call
\* of the client fails or its wait runs out
DeleteAlone(n) ==
    LET c == call[n]
        own == InitialServer(n)
    IN  /\ c.deleted \subseteq {own}
        /\ (c.looked /\ Existed(n))
           => \/ QueryFailed(c.lookupErr)
              \/ c.lookupErr = NoErr /\ c.server = own
        /\ (c.looked /\ ~Existed(n))
           => /\ ErrorsIs(c.lookupErr, "ErrNotFound") \/ QueryFailed(c.lookupErr)
              /\ c.deleted = {}
              /\ Finished(c)
              /\ c.err = NoErr \/ QueryFailed(c.err)
        /\ (Finished(c) /\ c.err = NoErr /\ Existed(n))
           => /\ c.deleted = {own}
              /\ own \in DOMAIN servers => servers[own].status = ServerStatusDeleted
              /\ ~isEmptyString(config.SubnetID)
                 => /\ c.portsDeleted # {}
                    /\ \A p \in DOMAIN ports : ports[p].name # n
        /\ (Finished(c) /\ c.err # NoErr)
           => \/ QueryFailed(c.err)
              \/ c.err = deleteWaitErr(ErrWaitTimeout)

\* the outcome a CreateMachine for n has when no other call runs: when it
\* succeeds its server has its name, is ACTIVE and has its pod network ports
\* patched; when it fails its rollback finds and deletes the server it made
CreateAlone(n) ==
    LET c == call[n]
    IN  /\ c.deleted \subseteq {c.created}
        /\ c.looked
           => \/ QueryFailed(c.lookupErr)
              \/ c.lookupErr = NoErr /\ c.server = c.created
        /\ (Finished(c) /\ c.err = NoErr)
           => /\ c.created \in DOMAIN servers
              /\ servers[c.created].name = n
              /\ servers[c.created].status = ServerStatusActive
              /\ Patched(c.created)
              /\ c.portsUpdated = PodPortsOf(c.created)
              /\ c.id = EncodeProviderID(config.Region, c.created)
        /\ (Finished(c) /\ c.err # NoErr /\ c.created # <<>> /\ c.errIn = NoErr)
           => /\ c.created \in DOMAIN servers
                 => servers[c.created].status = ServerStatusDeleted
              /\ c.err = c.err0

\* the claim as stated: whatever identifier a DeleteMachine is given, the
\* calls for distinct names change and delete only their own machine's
\* servers and ports
C13_AnyIdentifier ==
    /\ []OwnRecordsOnly
    /\ [][OwnStepsOnly]_vars

\* C13: calls for distinct machine names in parallel do not interfere,
\* provided every DeleteMachine is given no identifier or the identifier of
\* the server of its own name: under every interleaving of their client
\* calls, a step of a CreateMachine or DeleteMachine for one name changes,
\* creates or deletes only servers of that name and ports that are named
\* after it or bound to its servers, the servers of the other name never
\* make its lookup ambiguous, and each call ends as it does when it runs
\* alone (DeleteAlone, CreateAlone).
C13_DistinctNamesDoNotInterfere ==
    /\ [](OwnIdentifiers
          => /\ OwnRecordsOnly
             /\ \A n \in Names :
                   /\ call[n].op = "delete" => DeleteAlone(n)
                   /\ call[n].op = "create" => CreateAlone(n))
    /\ [][OwnIdentifiers => OwnStepsOnly]_vars

\* a DeleteMachine by name for one machine deleted its server and its port
\* while a CreateMachine for the other name, whose server the provider's
\* name filter also matches, was under way and then succeeded
C13_Witness ==
    /\ call["m1"].op = "delete" /\ Finished(call["m1"])
    /\ isEmptyChars(call["m1"].pid)
    /\ call["m1"].err = NoErr
    /\ call["m1"].deleted # {}
    /\ call["m1"].portsDeleted # {}
    /\ call["m12"].op = "create" /\ Finished(call["m12"])
    /\ call["m12"].err = NoErr
    /\ call["m12"].created \in DOMAIN servers

\* C14: encoding a provider identifier from the region and a server id and
\* decoding it again returns the same server id, for every non-empty region
\* and server id that contain no "/"; decoding a string that does not have
\* the shape openstack:///<region>/<id> yields an empty id, which the lookup
\* by identifier reports as a malformed identifier, without a client call.
SlashFree(str) == Slashes(str) = {}
HasShape(pid) ==
    \E region \in Strings, id \in Strings :
        /\ SlashFree(region) /\ SlashFree(id)
        /\ pid = ProviderPrefix \o region \o <<"/">> \o id
Encoded == codec.stage = "decoded" /\ codec.id # <<>>

C14_ProviderIDRoundTrip ==
    /\ (Encoded /\ SlashFree(config.Region) /\ SlashFree(codec.id))
       => /\ codec.raw = codec.id
          /\ HasShape(codec.pid)
          /\ codec.err = NoErr => codec.located = codec.id
          /\ codec.err # NoErr => codec.err = ClientErr("GetServer", "500")
    /\ (codec.stage = "decoded" /\ ~HasShape(codec.pid))
       => /\ codec.raw = <<>>
          /\ codec.err = NewErr("could not parse serverID from providerID")
          /\ codec.located = <<>>
          /\ codec.log = {}

\* an identifier was encoded, decoded, and the server was located by it
C14_Witness ==
    /\ Encoded
    /\ SlashFree(config.Region) /\ SlashFree(codec.id)
    /\ Len(config.Region) = MaxLen /\ Len(codec.id) = MaxLen
    /\ codec.raw = codec.id
    /\ codec.located = codec.id

\* C14 as the specification states it: the round trip returns the server id
\* for every pair of non-empty region and server id strings.
C14_RoundTripAnyStrings == Encoded => codec.raw = codec.id

\* C15: getMachineByName, with both ownership tag names in the configuration,
\* counts the servers whose name equals the machine name and whose metadata
\* has both tag keys: with none it returns not-found, with two or more the
\* multiple-found error and no server, with exactly one that server.
OwnedServers(n) ==
    {id \in DOMAIN servers :
        /\ servers[id].name = n
        /\ {k \in config.Tags : HasClusterPrefix(k) \/ HasRolePrefix(k)}
              \subseteq servers[id].metadata}

C15_LookupByNameCounts ==
    [][\A n \in Names :
          LET c == call[n]
              d == call'[n]
              byName == \/ c.pc = "statusLookup"
                        \/ c.pc = "lookup" /\ isEmptyChars(c.pid)
              res == IF c.pc = "statusLookup" THEN d.err ELSE d.lookupErr
              own == OwnedServers(n)
          IN  (byName /\ d # c /\ ~LacksOwnershipTag(config.Tags))
              => /\ "ListServers" \in d.log
                 /\ \/ res = ClientErr("ListServers", "500") /\ d.server = <<>>
                    \/ /\ Cardinality(own) = 0
                       /\ ErrorsIs(res, "ErrNotFound")
                       /\ d.server = <<>>
                    \/ /\ Cardinality(own) >= 2
                       /\ ErrorsIs(res, "ErrMultipleFound")
                       /\ ~ErrorsIs(res, "ErrNotFound")
                       /\ d.server = <<>>
                    \/ /\ Cardinality(own) = 1
                       /\ res = NoErr
                       /\ d.server \in own]_vars

\* a GetMachineStatus found two owned servers of the machine's name
C15_Witness ==
    \E n \in Names :
        /\ call[n].op = "status" /\ Finished(call[n])
        /\ ErrorsIs(call[n].err, "ErrMultipleFound")
        /\ Cardinality(OwnedServers(n)) = 2
        /\ call[n].server = <<>>

\* C16: for any sequence of statuses the provider reports, waitForStatus
\* succeeds exactly at the first query whose status is in the target list,
\* provided every earlier status was acceptable, and fails at once at the
\* first query whose status is neither in the target list nor in a non-empty
\* pending list, with no further query; with an empty pending list no status
\* causes an unexpected-status failure.  BUILD, BUILD, ACTIVE with target
\* ACTIVE and pending BUILD succeeds at the third query; BUILD, ERROR fails
\* at the second.
InTarget(a) == \E i \in 1..Len(poller.target) : poller.target[i] = a
InPending(a) == \E i \in 1..Len(poller.pending) : poller.pending[i] = a
IsStatus(a) == a \notin {"404", "500"}
Acceptable(a) ==
    IsStatus(a) /\ ~InTarget(a) /\ (poller.pending = <<>> \/ InPending(a))
Unexpected(a) ==
    IsStatus(a) /\ ~InTarget(a) /\ poller.pending # <<>> /\ ~InPending(a)
UnexpectedErr(e) == "unexpected status" \in Range(e.text)

C16_PollerFollowsStatuses ==
    LET script == poller.script
        q == poller.polls
    IN  /\ \A k \in 1..Len(script) :
              (\A i \in 1..(k - 1) : Acceptable(script[i]))
              => /\ InTarget(script[k])
                    => /\ q <= k
                       /\ q < k => poller.state = "again"
                       /\ q = k => (poller.state = "done" /\ poller.err = NoErr)
                 /\ Unexpected(script[k])
                    => /\ q <= k
                       /\ q < k => poller.state = "again"
                       /\ q = k => /\ poller.state = "failed"
                                   /\ UnexpectedErr(poller.err)
                                   /\ "fault" \in Range(poller.err.text)
                                         <=> script[k] = ServerStatusError
        /\ poller.pending = <<>> => ~UnexpectedErr(poller.err)
        /\ (poller.state = "done" /\ IsStatus(script[q])) => InTarget(script[q])
        /\ (script = <<"BUILD", "BUILD", "ACTIVE">> /\ poller.pending = <<"BUILD">>
            /\ poller.target = <<"ACTIVE">> /\ poller.state # "again")
           => (poller.state = "done" /\ q = 3)
        /\ (script = <<"BUILD", "ERROR">> /\ poller.pending = <<"BUILD">>
            /\ poller.target = <<"ACTIVE">> /\ poller.state # "again")
           => (poller.state = "failed" /\ q = 2)

\* BUILD, BUILD, ACTIVE: the wait for ACTIVE succeeded at the third query
C16_Witness ==
    /\ poller.script = <<"BUILD", "BUILD", "ACTIVE">>
    /\ poller.pending = <<"BUILD">> /\ poller.target = <<"ACTIVE">>
    /\ poller.state = "done"
    /\ poller.polls = 3

\* C17: in waitForStatus a query that fails with not-found is a success if
\* and only if the target list holds the deleted status; a not-found when it
\* does not (the wait for ACTIVE of CreateMachine), and any other failure of
\* the query, ends the wait at once as a failure.
C17_NotFoundIsDeletedOnly ==
    LET q == poller.polls
        last == IF q = 0 THEN "" ELSE poller.script[q]
    IN  /\ (q > 0 /\ last = "404")
           => /\ poller.state # "again"
              /\ poller.state = "done" <=> InTarget(ServerStatusDeleted)
              /\ poller.state = "failed"
                 => poller.err = ClientErr("GetServer", "404")
        /\ (q > 0 /\ last = "500")
           => /\ poller.state = "failed"
              /\ poller.err = ClientErr("GetServer", "500")
        /\ \A i \in 1..(q - 1) : poller.script[i] \notin {"404", "500"}

\* the wait for ACTIVE met a not-found at its second query and failed
C17_Witness ==
    /\ poller.pending = <<"BUILD">> /\ poller.target = <<"ACTIVE">>
    /\ poller.polls = 2
    /\ poller.script[2] = "404"
    /\ poller.state = "failed"
    /\ IsNotFoundError(poller.err)

\* C18: waitForStatus always terminates: it issues at most one query for
\* every tick up to the deadline, and when no query before the deadline
\* yields a target status, a not-found taken for deleted, or an error, it
\* returns a failure; the wait of DeleteMachine on a server that stays in
\* ERROR ends in a timeout, and DeleteMachine returns an error.
Decisive(a) ==
    \/ a = "500"
    \/ a = "404"
    \/ InTarget(a)
    \/ Unexpected(a)

C18_PollerTerminates ==
    /\ <>(poller.state # "again")
    /\ [](/\ poller.polls <= poller.secs
          /\ poller.state = "again" => poller.polls < poller.secs
          /\ (poller.state # "again"
              /\ \A i \in 1..Len(poller.script) : ~Decisive(poller.script[i]))
             => /\ poller.state = "failed"
                /\ poller.err = ErrWaitTimeout
                /\ poller.polls = poller.secs
                /\ poller.ret # NoErr
          /\ poller.err = ErrWaitTimeout
             => (poller.state = "failed" /\ poller.polls = poller.secs))

\* the wait of DeleteMachine saw ERROR at every tick and timed out
C18_Witness ==
    /\ poller.pending = <<>> /\ poller.target = <<"DELETED">>
    /\ poller.secs = MaxSecs
    /\ \A i \in 1..Len(poller.script) : poller.script[i] = "ERROR"
    /\ poller.state = "failed"
    /\ poller.err = ErrWaitTimeout
    /\ poller.ret = deleteWaitErr(ErrWaitTimeout)

\* C19: computeServerNetworks creates a port if and only if both a network
\* id and a subnet id are configured; then it creates exactly one port, on
\* that subnet, with the ids of all configured security groups and the pod
\* network CIDR in its allowed address pairs, and returns exactly one
\* attachment (the network id, that port); with only a network id, or with a
\* network list, it creates no port and the attachments follow the
\* configured order.
GroupIDs == {ResolvedID(config.SecurityGroups[i]) : i \in 1..Len(config.SecurityGroups)}

C19_ResolverPreallocatesPort ==
    [][\A n \in Names :
          LET c == call[n]
              d == call'[n]
              new == DOMAIN ports' \ DOMAIN ports
              both == config.NetworkID # "" /\ config.SubnetID # ""
          IN  (c.pc = "networks" /\ d # c)
              => /\ \A p \in DOMAIN ports : p \in DOMAIN ports' /\ ports'[p] = ports[p]
                 /\ d.pc = "done" => (new = {} /\ d.err # NoErr)
                 /\ d.pc # "done"
                    => /\ Cardinality(new) = (IF both THEN 1 ELSE 0)
                       /\ "CreatePort" \in d.log <=> both
                       /\ both
                          => \E p \in new :
                                /\ ports'[p].subnet = config.SubnetID
                                /\ ports'[p].networkID = config.NetworkID
                                /\ ports'[p].name = n
                                /\ ports'[p].groups = GroupIDs
                                /\ Cardinality(GroupIDs) = Len(config.SecurityGroups)
                                /\ config.PodNetworkCidr \in ports'[p].pairs
                                /\ d.nws = <<[UUID |-> config.NetworkID, Port |-> p]>>
                                /\ {"GetSubnet", "GroupIDFromName"} \subseteq d.log
                       /\ (~both /\ config.NetworkID # "")
                          => d.nws = <<[UUID |-> config.NetworkID, Port |-> 0]>>
                       /\ config.NetworkID = ""
                          => /\ Len(d.nws) = Len(config.Networks)
                             /\ \A i \in 1..Len(d.nws) :
                                   /\ d.nws[i].Port = 0
                                   /\ d.nws[i].UUID =
                                         IF config.Networks[i].Id # ""
                                         THEN config.Networks[i].Id
                                         ELSE ResolvedID(config.Networks[i].Name)]_vars

\* computeServerNetworks pre-allocated the port of a machine
C19_Witness ==
    \E n \in Names :
        /\ call[n].op = "create" /\ call[n].pc = "deploy"
        /\ call[n].port \in DOMAIN ports
        /\ ports[call[n].port].groups = {"sgid1", "sgid2"}
        /\ ports[call[n].port].subnet = "sub1"
        /\ call[n].nws = <<[UUID |-> "net1", Port |-> call[n].port]>>

\* C20: with a subnet id configured, whenever DeleteMachine for a machine
\* name returns success no port named after the machine remains at the
\* provider, also when the server was already absent.
C20_DeleteLeavesNoPort ==
    \A n \in Names :
        LET c == call[n]
        IN  (c.op = "delete" /\ Finished(c) /\ c.err = NoErr
             /\ config.SubnetID # "")
            => \A p \in DOMAIN ports : ports[p].name # n

\* C21: CreateMachine returns success only if the server it created was
\* observed ACTIVE, has at least one port on a pod network, and every such
\* port was updated to allow the pod network CIDR; hence, with both ownership
\* tag names configured and no other owned server of the same name, a
\* GetMachineStatus for that name right after a successful CreateMachine
\* succeeds (its queries succeeding) and returns the identifier CreateMachine
\* returned.
C21_StatusAfterCreateAgrees ==
    /\ [](\A n \in Names :
            LET c == call[n]
            IN  (c.op = "create" /\ Finished(c) /\ c.err = NoErr)
                => /\ c.last = ServerStatusActive
                   /\ c.created \in DOMAIN servers
                   /\ servers[c.created].status = ServerStatusActive
                   /\ PodPortsOf(c.created) # {}
                   /\ PodPortsOf(c.created) = c.portsUpdated
                   /\ Patched(c.created)
                   /\ c.id = EncodeProviderID(config.Region, c.created))
    /\ [][\A n \in Names :
            LET c == call[n]
                d == call'[n]
            IN  (c.op = "status" /\ c.pid # <<>>)
                => /\ (/\ c.pc = "statusLookup" /\ d.pc # "statusLookup"
                       /\ ~LacksOwnershipTag(config.Tags)
                       /\ Cardinality(OwnedServers(n)) = 1)
                      => \/ QueryFailed(d.err)
                         \/ /\ d.pc = "verify"
                            /\ d.server = DecodeProviderID(c.pid)
                   /\ (/\ c.pc = "verify" /\ d.pc = "done"
                       /\ c.server = DecodeProviderID(c.pid))
                      => \/ QueryFailed(d.err)
                         \/ /\ d.err = NoErr
                            /\ d.id = c.pid]_vars

\* a CreateMachine with a network list succeeded, its pod network port was
\* patched, and the GetMachineStatus that followed returned the same
\* identifier
C21_Witness ==
    \E n \in Names :
        /\ call[n].op = "status" /\ Finished(call[n])
        /\ call[n].pid # <<>>
        /\ config.NetworkID = ""
        /\ call[n].err = NoErr
        /\ call[n].id = call[n].pid
        /\ Cardinality(OwnedServers(n)) = 1

====
